---- MODULE Spec2Model ----
(***************************************************************************)
(* The Set Pipeline of ember-metal (packages/ember-metal/lib/              *)
(* property_set.ts): set, setPath, trySet, setWithMandatorySetter and      *)
(* makeEnumerable, over a small heap of objects, their Meta records and    *)
(* the descriptors registered for them; and Class.create (ember-runtime    *)
(* system/core_object), which hands the property bag to the Set Pipeline.  *)
(*                                                                         *)
(* JavaScript values are strings: "undefined", "null", the primitives      *)
(* "a" and "NaN", the object references "o1".."o3" and the descriptor      *)
(* objects "d1", "d2".  A key is the sequence of its dot-separated         *)
(* segments: <<"x">> is the simple key x, <<"x","y">> the path x.y.        *)
(***************************************************************************)
EXTENDS Naturals, Sequences, FiniteSets, TLC

\* ------------------------------------------------------------------ bounds
MaxCalls == 2        \* set/trySet calls in one behaviour
MaxDestroyed == 1    \* objects destroyed in one behaviour
MaxFrames == 3       \* nested calls of set the stack holds

\* ------------------------------------------------------------------ domains
Objs == {"o1", "o2", "o3"}
SimpleKeys == {"x", "y"}
Descs == {"d1", "d2"}
Primitives == {"a", "NaN"}
Values == {"undefined", "null"} \cup Primitives \cup Objs \cup Descs

\* keys a caller passes: simple keys and well-formed paths (every segment
\* non-empty, no leading "this."), as the assertions of set/setPath require
InputKeys == {<<"x">>, <<"y">>, <<"x", "y">>, <<"x", "x", "y">>}
\* values a caller passes
InputValues == {"undefined", "null", "a", "NaN"}

\* descriptors that carry a setup function, and their enumerable flag
DescsWithSetup == {"d1"}
DescEnumerable(d) == d = "d1"

VARIABLES
  DEBUG,                     \* @glimmer/env build flag
  objs,                      \* the objects: flags, own slots, prototype slots
  metas,                     \* the Meta record of each object
  dvalues,                   \* storage owned by the descriptors, per (obj,key)
  calls,                     \* number of set/trySet calls made
  last,                      \* record of the most recent call
  reentrant                  \* the observers, setup functions and setters of
                             \* the application call set from inside a call

vars == <<DEBUG, objs, metas, dvalues, calls, last, reentrant>>

\* @ember/deprecated-features PROPERTY_BASED_DESCRIPTORS: the deprecated
\* upgrade of a descriptor found in a raw slot is still part of the build
PROPERTY_BASED_DESCRIPTORS == TRUE

\* ember-utils HAS_NATIVE_PROXY: the engine has Proxy
HAS_NATIVE_PROXY == TRUE

\* ------------------------------------------------------------------ heap
\* an own property slot: absent, a data property, the mandatory-setter trap
\* (its value lives in meta.values) or the getter shim of the legacy upgrade
AbsentSlot == [kind |-> "absent", value |-> "undefined", enumerable |-> FALSE]
DataSlot(v, e) == [kind |-> "data", value |-> v, enumerable |-> e]
TrapSlot(e) == [kind |-> "trap", value |-> "undefined", enumerable |-> e]
GetterSlot(cv, e) == [kind |-> "getter", value |-> cv, enumerable |-> e]

NoMeta == [exists |-> FALSE,
           watching |-> [k \in SimpleKeys |-> 0],
           descriptors |-> [k \in SimpleKeys |-> "undefined"],
           values |-> [k \in SimpleKeys |-> "unset"]]

\* the heap a call works on, with what the callbacks of the application do
\* and the number of set frames below the one running
Heap(o, m, d, u) == [objs |-> o, metas |-> m, dvalues |-> d, reentrant |-> u, frames |-> 0]

\* an event of a call's trace
Ev(e, obj, k, v) == [ev |-> e, obj |-> obj, key |-> k, value |-> v]

\* outcomes of a call
Return(h, v, t) == [h |-> h, ret |-> v, err |-> "none", trace |-> t]
Throw(h, e, t) == [h |-> h, ret |-> "none", err |-> e, trace |-> t]

\* ------------------------------------------------------------------ JavaScript property semantics
\* a === b: NaN is not identical to itself
StrictEquals(a, b) == a = b /\ a # "NaN"

\* Object([[Get]]): obj[keyName]
PropRead(h, obj, k) ==
  LET slot == h.objs[obj].own[k]
      inherited == IF h.objs[obj].proto[k] = "absent" THEN "undefined"
                   ELSE h.objs[obj].proto[k]
  IN CASE slot.kind = "data" -> slot.value
       [] slot.kind = "trap" -> IF h.metas[obj].values[k] = "unset" THEN inherited
                                ELSE h.metas[obj].values[k]
       [] slot.kind = "getter" -> h.dvalues[obj][k]
       [] OTHER -> inherited

\* keyName in obj: own or inherited
HasProperty(h, obj, k) ==
  h.objs[obj].own[k].kind # "absent" \/ h.objs[obj].proto[k] # "absent"

\* Object([[Set]]): obj[keyName] = value.  A data slot takes the value, a
\* missing slot is created (writable, enumerable); the mandatory-setter trap
\* refuses a direct write, and a getter without a setter rejects it (strict
\* mode).
Assign(h, obj, k, value) ==
  LET slot == h.objs[obj].own[k]
  IN CASE slot.kind = "data" ->
            [h |-> [h EXCEPT !.objs[obj].own[k].value = value], err |-> "none"]
       [] slot.kind = "absent" ->
            [h |-> [h EXCEPT !.objs[obj].own[k] = DataSlot(value, TRUE)], err |-> "none"]
       [] slot.kind = "trap" -> [h |-> h, err |-> "MandatorySetterError"]
       [] OTHER -> [h |-> h, err |-> "TypeError"]

\* ------------------------------------------------------------------ collaborators
\* @ember/debug assert: raises when its test is falsy
assert(test) == IF test THEN "pass" ELSE "raise"

\* typeof obj is 'object' or 'function'
IsObject(v) == v \in Objs

\* path_cache isPath: the key contains a '.'
isPath(keyName) == Len(keyName) > 1

\* ember-meta peekMeta: the Meta record, or undefined
peekMeta(h, obj) == IF h.metas[obj].exists THEN obj ELSE "undefined"

\* ember-meta meta(obj): the Meta record, created on first use
meta(h, obj) == [h EXCEPT !.metas[obj].exists = TRUE]

\* ember-meta descriptorFor: the descriptor registered for (obj,key)
descriptorFor(h, obj, k) ==
  IF h.metas[obj].exists THEN h.metas[obj].descriptors[k] ELSE "undefined"

\* ember-meta isDescriptor
isDescriptor(v) == v \in Descs

\* Meta.peekWatching
peekWatching(h, obj, k) == h.metas[obj].watching[k]

\* Meta.writeDescriptors
writeDescriptors(h, obj, k, cv) == [h EXCEPT !.metas[obj].descriptors[k] = cv]

\* Meta.writeValue: into meta.values when the slot is the mandatory-setter
\* trap, else an ordinary assignment
writeValue(h, obj, k, value) ==
  IF h.objs[obj].own[k].kind = "trap"
  THEN [h |-> [h EXCEPT !.metas[obj].values[k] = value], err |-> "none"]
  ELSE Assign(h, obj, k, value)

\* Descriptor.get / Descriptor.set: the descriptor owns the storage
descriptorGet(h, obj, k) == h.dvalues[obj][k]
descriptorSet(h, obj, k, value) == [h EXCEPT !.dvalues[obj][k] = value]

\* property_get getPossibleMandatoryProxyValue: the raw value of the key
getPossibleMandatoryProxyValue(h, obj, k) == PropRead(h, obj, k)

\* Get Pipeline, simple key: the descriptor's getter first, else the raw value
get(h, obj, k) ==
  IF descriptorFor(h, obj, k) # "undefined" THEN descriptorGet(h, obj, k)
  ELSE PropRead(h, obj, k)

\* property_get _getPath: left to right, undefined at the first link that
\* is not an object
RECURSIVE getPath(_, _, _)
getPath(h, root, parts) ==
  IF parts = <<>> THEN root
  ELSE IF ~IsObject(root) THEN "undefined"
  ELSE getPath(h, get(h, root, Head(parts)), Tail(parts))

\* property_events notifyPropertyChange: Change Notification for (obj,key)
notifyPropertyChange(obj, k) == Ev("notify", obj, k, "undefined")

\* obj.setUnknownProperty(keyName, value): the hook of the object's class
setUnknownProperty(obj, k, value) == Ev("setUnknownProperty", obj, k, value)

\* ------------------------------------------------------------------ property_set.ts
\* makeEnumerable (lines 164-171)
makeEnumerable(h, obj, k) ==
  LET desc == h.objs[obj].own[k]
  IN IF desc.kind = "trap" THEN [h EXCEPT !.objs[obj].own[k].enumerable = TRUE]
     ELSE h

\* variant: the watched write leaves out makeEnumerable
setWithMandatorySetter_NoEnumerable(h, m, obj, k, value) ==
  IF m # "undefined" /\ peekWatching(h, m, k) > 0
  THEN LET w == writeValue(h, obj, k, value)
       IN [h |-> w.h, err |-> w.err, trace |-> <<Ev("writeValue", obj, k, value)>>]
  ELSE LET w == Assign(h, obj, k, value)
       IN [h |-> w.h, err |-> w.err, trace |-> <<Ev("rawWrite", obj, k, value)>>]

\* setWithMandatorySetter (lines 155-162)
setWithMandatorySetter(h, m, obj, k, value) ==
  IF m # "undefined" /\ peekWatching(h, m, k) > 0
  THEN LET w == writeValue(makeEnumerable(h, obj, k), obj, k, value)
       IN [h |-> w.h, err |-> w.err, trace |-> <<Ev("writeValue", obj, k, value)>>]
  ELSE LET w == Assign(h, obj, k, value)
       IN [h |-> w.h, err |-> w.err, trace |-> <<Ev("rawWrite", obj, k, value)>>]

\* set (lines 50-152), which the callbacks of the application may call
RECURSIVE set(_, _, _, _, _, _)

\* a callback calls set(obj, keyName, value) from inside a call of set; the
\* stack holds MaxFrames nested calls and overflows with RangeError
reenter(h, debug, obj, k, value) ==
  IF h.frames >= MaxFrames THEN Throw(h, "RangeError", <<>>)
  ELSE LET r == set([h EXCEPT !.frames = @ + 1], debug, obj, <<k>>, value, FALSE)
       IN [r EXCEPT !.h.frames = h.frames]

\* a step that completed without a call back into set
Done(h, t) == [h |-> h, err |-> "none", trace |-> t]

\* the events t, then the step r
Then(t, r) == [h |-> r.h, err |-> r.err, trace |-> t \o r.trace]

\* return value once the step c has completed; its error otherwise
Returning(c, value) ==
  IF c.err # "none" THEN Throw(c.h, c.err, c.trace)
  ELSE Return(c.h, value, c.trace)

\* possibleDesc.set(obj, keyName, value): the setter stores the value; a
\* re-entrant setter then calls set with it, once, from the outermost call
callSetter(h, debug, obj, k, value) ==
  LET h1 == descriptorSet(h, obj, k, value)
      ev == Ev("descriptor.set", obj, k, value)
  IN IF h.reentrant /\ h.frames = 0
     THEN Then(<<ev>>, reenter(h1, debug, obj, k, value))
     ELSE Done(h1, <<ev>>)

\* cv.setup(obj, keyName), for a descriptor that has one; a re-entrant setup
\* calls set(obj, keyName, null)
callSetup(h, debug, cv, obj, k) ==
  LET ev == Ev("descriptor.setup", obj, k, "undefined")
  IN IF cv \notin DescsWithSetup THEN Done(h, <<>>)
     ELSE IF h.reentrant
     THEN Then(<<ev>>, reenter(h, debug, obj, k, "null"))
     ELSE Done(h, <<ev>>)

\* notifyPropertyChange(obj, keyName) with the observers of (obj,keyName) run
\* in line: a re-entrant observer reads the key and calls set with value
notify(h, debug, obj, k, value) ==
  LET ev == notifyPropertyChange(obj, k)
  IN IF h.reentrant /\ peekMeta(h, obj) # "undefined" /\ peekWatching(h, obj, k) > 0
     THEN Then(<<ev, Ev("observer", obj, k, get(h, obj, k))>>,
               reenter(h, debug, obj, k, value))
     ELSE Done(h, <<ev>>)

\* variant: the descriptor branch falls through to the notification
computedProperty_Notifies(h, debug, obj, k, value) ==
  Return(descriptorSet(h, obj, k, value), value,
         <<Ev("descriptor.set", obj, k, value), Ev("notify", obj, k, "undefined")>>)

\* set, lines 82-86: a descriptor is registered for (obj,keyName)
computedProperty(h, debug, obj, k, value) ==
  Returning(callSetter(h, debug, obj, k, value), value)

\* set, line 125 after lines 121-123: cv.set once the setup step u is over
setAfterSetup(u, debug, obj, k, value) ==
  IF u.err # "none" THEN Throw(u.h, u.err, u.trace)
  ELSE Returning(Then(u.trace, callSetter(u.h, debug, obj, k, value)), value)

\* variant: setup is invoked before the descriptor is registered
legacyUpgrade_SetupFirst(h, debug, obj, k, value, cv) ==
  LET h1 == [h EXCEPT !.objs[obj].own[k] =
                 GetterSlot(cv, DescEnumerable(cv) = FALSE)]
      t1 == <<Ev("deprecate", obj, k, cv), Ev("defineProperty", obj, k, cv)>>
      u == callSetup(h1, debug, cv, obj, k)
      h2 == writeDescriptors(meta(u.h, obj), obj, k, cv)
      t2 == t1 \o u.trace \o <<Ev("writeDescriptors", obj, k, cv)>>
  IN IF u.err # "none" THEN Throw(u.h, u.err, t1 \o u.trace)
     ELSE Returning(Then(t2, callSetter(h2, debug, obj, k, value)), value)

\* set, lines 95-127: the raw slot holds a descriptor that is not registered
legacyUpgrade(h, debug, obj, k, value, cv) ==
  LET h1 == [h EXCEPT !.objs[obj].own[k] =
                 GetterSlot(cv, DescEnumerable(cv) = FALSE)]
      h2 == writeDescriptors(meta(h1, obj), obj, k, cv)
      t1 == <<Ev("deprecate", obj, k, cv), Ev("defineProperty", obj, k, cv),
              Ev("writeDescriptors", obj, k, cv)>>
  IN setAfterSetup(Then(t1, callSetup(h2, debug, cv, obj, k)), debug, obj, k, value)

\* variant: the test leaves out !(keyName in obj)
isUnknownProperty_NoInCheck(h, obj, k, currentValue) ==
  /\ StrictEquals(currentValue, "undefined")
  /\ IsObject(obj)
  /\ h.objs[obj].setUnknownProperty

\* set, lines 129-134: the test that routes the call to setUnknownProperty
isUnknownProperty(h, obj, k, currentValue) ==
  /\ StrictEquals(currentValue, "undefined")
  /\ IsObject(obj)
  /\ ~HasProperty(h, obj, k)
  /\ h.objs[obj].setUnknownProperty

\* variant: the hook is invoked and the raw slot is written as well
unknownProperty_AlsoWrites(h, obj, k, value) ==
  Return(Assign(h, obj, k, value).h, value,
         <<setUnknownProperty(obj, k, value), Ev("rawWrite", obj, k, value)>>)

\* set, lines 135-136
unknownProperty(h, obj, k, value) ==
  Return(h, value, <<setUnknownProperty(obj, k, value)>>)

\* variant: the notification is not guarded by the comparison
rawWrite_AlwaysNotify(h, debug, obj, k, value, currentValue) ==
  LET m == peekMeta(h, obj)
      w == IF debug
           THEN setWithMandatorySetter(h, m, obj, k, value)
           ELSE LET a == Assign(h, obj, k, value)
                IN [h |-> a.h, err |-> a.err,
                    trace |-> <<Ev("rawWrite", obj, k, value)>>]
  IN IF w.err # "none" THEN Throw(w.h, w.err, w.trace)
     ELSE Return(w.h, value, Append(w.trace, notifyPropertyChange(obj, k)))

\* variant: the comparison is inverted (=== for !==)
rawWrite_NotifyWhenSame(h, debug, obj, k, value, currentValue) ==
  LET m == peekMeta(h, obj)
      w == IF debug
           THEN setWithMandatorySetter(h, m, obj, k, value)
           ELSE LET a == Assign(h, obj, k, value)
                IN [h |-> a.h, err |-> a.err,
                    trace |-> <<Ev("rawWrite", obj, k, value)>>]
  IN IF w.err # "none" THEN Throw(w.h, w.err, w.trace)
     ELSE IF StrictEquals(currentValue, value)
     THEN Return(w.h, value, Append(w.trace, notifyPropertyChange(obj, k)))
     ELSE Return(w.h, value, w.trace)

\* variant: the notification is triggered before the value is stored
rawWrite_NotifyFirst(h, debug, obj, k, value, currentValue) ==
  LET n == IF ~StrictEquals(currentValue, value) THEN notify(h, debug, obj, k, value)
           ELSE Done(h, <<>>)
      m == peekMeta(n.h, obj)
      w == IF debug
           THEN setWithMandatorySetter(n.h, m, obj, k, value)
           ELSE LET a == Assign(n.h, obj, k, value)
                IN [h |-> a.h, err |-> a.err,
                    trace |-> <<Ev("rawWrite", obj, k, value)>>]
  IN IF n.err # "none" THEN Throw(n.h, n.err, n.trace)
     ELSE Returning(Then(n.trace, w), value)

\* set, lines 137-149: the raw write and the Change Notification
rawWrite(h, debug, obj, k, value, currentValue) ==
  LET m == peekMeta(h, obj)
      w == IF debug
           THEN setWithMandatorySetter(h, m, obj, k, value)
           ELSE LET a == Assign(h, obj, k, value)
                IN [h |-> a.h, err |-> a.err,
                    trace |-> <<Ev("rawWrite", obj, k, value)>>]
  IN IF w.err # "none" THEN Throw(w.h, w.err, w.trace)
     ELSE IF ~StrictEquals(currentValue, value)
     THEN Returning(Then(w.trace, notify(w.h, debug, obj, k, value)), value)
     ELSE Return(w.h, value, w.trace)

\* variant: the test for setUnknownProperty comes before the descriptor
setKey_HookFirst(h, debug, obj, k, value) ==
  LET possibleDesc == descriptorFor(h, obj, k)
      currentValue == IF debug /\ HAS_NATIVE_PROXY
                      THEN getPossibleMandatoryProxyValue(h, obj, k)
                      ELSE PropRead(h, obj, k)
  IN IF isUnknownProperty(h, obj, k, currentValue)
     THEN unknownProperty(h, obj, k, value)
     ELSE IF possibleDesc # "undefined" THEN computedProperty(h, debug, obj, k, value)
     ELSE IF PROPERTY_BASED_DESCRIPTORS /\ isDescriptor(currentValue)
     THEN legacyUpgrade(h, debug, obj, k, value, currentValue)
     ELSE rawWrite(h, debug, obj, k, value, currentValue)

\* set, lines 80-151: the dispatch on a simple key
setKey(h, debug, obj, k, value) ==
  LET possibleDesc == descriptorFor(h, obj, k)
      currentValue == IF debug /\ HAS_NATIVE_PROXY
                      THEN getPossibleMandatoryProxyValue(h, obj, k)
                      ELSE PropRead(h, obj, k)
  IN IF possibleDesc # "undefined" THEN computedProperty(h, debug, obj, k, value)
     ELSE IF PROPERTY_BASED_DESCRIPTORS /\ isDescriptor(currentValue)
     THEN legacyUpgrade(h, debug, obj, k, value, currentValue)
     ELSE IF isUnknownProperty(h, obj, k, currentValue)
     THEN unknownProperty(h, obj, k, value)
     ELSE rawWrite(h, debug, obj, k, value, currentValue)

\* setPath (lines 174-188) and set (lines 50-152)

\* variant: only undefined counts as a missing parent
setPath_NullIsObject(h, debug, root, path, value, tolerant) ==
  LET parts == path
      keyName == parts[Len(parts)]
      newPath == SubSeq(parts, 1, Len(parts) - 1)
      newRoot == getPath(h, root, newPath)
  IN IF ~StrictEquals(newRoot, "undefined")
     THEN set(h, debug, newRoot, <<keyName>>, value, FALSE)
     ELSE IF ~tolerant THEN Throw(h, "PathResolutionError", <<>>)
     ELSE Return(h, "undefined", <<>>)

\* variant: the result of the recursive set is dropped
setPath_NoReturn(h, debug, root, path, value, tolerant) ==
  LET parts == path
      keyName == parts[Len(parts)]
      newPath == SubSeq(parts, 1, Len(parts) - 1)
      newRoot == getPath(h, root, newPath)
  IN IF ~StrictEquals(newRoot, "null") /\ ~StrictEquals(newRoot, "undefined")
     THEN LET r == set(h, debug, newRoot, <<keyName>>, value, FALSE)
          IN IF r.err = "none" THEN [r EXCEPT !.ret = "undefined"] ELSE r
     ELSE IF ~tolerant THEN Throw(h, "PathResolutionError", <<>>)
     ELSE Return(h, "undefined", <<>>)

\* variant: tolerant is handed on to the write on the parent
setPath_KeepsTolerant(h, debug, root, path, value, tolerant) ==
  LET parts == path
      keyName == parts[Len(parts)]
      newPath == SubSeq(parts, 1, Len(parts) - 1)
      newRoot == getPath(h, root, newPath)
  IN IF ~StrictEquals(newRoot, "null") /\ ~StrictEquals(newRoot, "undefined")
     THEN set(h, debug, newRoot, <<keyName>>, value, tolerant)
     ELSE IF ~tolerant THEN Throw(h, "PathResolutionError", <<>>)
     ELSE Return(h, "undefined", <<>>)

\* variant: the last segment is written on the root, not on the parent
setPath_WritesRoot(h, debug, root, path, value, tolerant) ==
  LET parts == path
      keyName == parts[Len(parts)]
      newPath == SubSeq(parts, 1, Len(parts) - 1)
      newRoot == getPath(h, root, newPath)
  IN IF ~StrictEquals(newRoot, "null") /\ ~StrictEquals(newRoot, "undefined")
     THEN set(h, debug, root, <<keyName>>, value, FALSE)
     ELSE IF ~tolerant THEN Throw(h, "PathResolutionError", <<>>)
     ELSE Return(h, "undefined", <<>>)

setPath(h, debug, root, path, value, tolerant) ==
  LET parts == path
      keyName == parts[Len(parts)]
      newPath == SubSeq(parts, 1, Len(parts) - 1)
      newRoot == getPath(h, root, newPath)
  IN IF ~StrictEquals(newRoot, "null") /\ ~StrictEquals(newRoot, "undefined")
     THEN set(h, debug, newRoot, <<keyName>>, value, FALSE)
     ELSE IF ~tolerant THEN Throw(h, "PathResolutionError", <<>>)
     ELSE Return(h, "undefined", <<>>)

\* variant: the key is classified before the destroyed check
set_PathBeforeDestroyed(h, debug, obj, keyName, value, tolerant) ==
  IF assert(IsObject(obj)) = "raise" THEN Throw(h, "InvalidArgument", <<>>)
  ELSE IF isPath(keyName) THEN setPath(h, debug, obj, keyName, value, tolerant)
  ELSE IF h.objs[obj].isDestroyed
  THEN IF assert(tolerant) = "raise" THEN Throw(h, "DestroyedObjectError", <<>>)
       ELSE Return(h, "undefined", <<>>)
  ELSE setKey(h, debug, obj, keyName[1], value)

set(h, debug, obj, keyName, value, tolerant) ==
  IF assert(IsObject(obj)) = "raise" THEN Throw(h, "InvalidArgument", <<>>)
  ELSE IF h.objs[obj].isDestroyed
  THEN IF assert(tolerant) = "raise" THEN Throw(h, "DestroyedObjectError", <<>>)
       ELSE Return(h, "undefined", <<>>)
  ELSE IF isPath(keyName) THEN setPath(h, debug, obj, keyName, value, tolerant)
  ELSE setKey(h, debug, obj, keyName[1], value)

\* trySet (lines 212-214)
trySet(h, debug, root, path, value) == set(h, debug, root, path, value, TRUE)

\* ------------------------------------------------------------------ Class.create (ember-runtime core_object)
\* what a caller passes to create: nothing, null, undefined, a primitive, a
\* mixin, or an object whose own enumerable pairs are the bag.  A bag value is
\* a plain value, the computed-property descriptor "d1" or the function
\* "superFn", whose body calls _super.
NoArg == [kind |-> "omitted", bag |-> <<>>]
Pair(k, v) == [key |-> k, value |-> v]
BagValues == {"undefined", "a", "d1", "superFn"}
Bags ==
  {<<>>}
  \cup {<<Pair(k, v)>> : k \in SimpleKeys, v \in BagValues}
  \cup {b \in {<<Pair(k1, v1), Pair(k2, v2)>> :
                  k1 \in SimpleKeys, k2 \in SimpleKeys, v1 \in BagValues, v2 \in BagValues} :
           b[1].key # b[2].key}
Args ==
  {[kind |-> t, bag |-> <<>>] :
      t \in {"omitted", "null", "undefined", "string", "number", "boolean", "mixin"}}
  \cup {[kind |-> "object", bag |-> b] : b \in Bags}

\* the own enumerable pairs of an instance passed as the argument
OwnPairs(h, obj) ==
  LET has(k) == h.objs[obj].own[k].kind = "data" /\ h.objs[obj].own[k].enumerable
      px == IF has("x") THEN <<Pair("x", h.objs[obj].own["x"].value)>> ELSE <<>>
      py == IF has("y") THEN <<Pair("y", h.objs[obj].own["y"].value)>> ELSE <<>>
  IN px \o py

\* the value is a computed-property descriptor / a function that calls _super
IsComputed(v) == v \in Descs
CallsSuper(v) == v = "superFn"

\* the pairs are taken in order: a computed property or a _super method
\* fails with DefinitionError, any other pair goes through the Set Pipeline
RECURSIVE applyBag(_, _, _, _, _)

\* the pairs left once the pair before them has been applied with outcome r
applyRest(r, debug, inst, bag) ==
  IF r.err # "none" THEN Throw(r.h, r.err, r.trace)
  ELSE applyBag(r.h, debug, inst, bag, r.trace)

\* variant: a function that calls _super is applied like any other value
applyBag_AllowsSuper(h, debug, inst, bag, trace) ==
  IF bag = <<>> THEN Return(h, inst, trace)
  ELSE IF IsComputed(Head(bag).value)
  THEN Throw(h, "DefinitionError", trace)
  ELSE applyRest(Then(trace, set(h, debug, inst, <<Head(bag).key>>, Head(bag).value, FALSE)),
                 debug, inst, Tail(bag))

applyBag(h, debug, inst, bag, trace) ==
  IF bag = <<>> THEN Return(h, inst, trace)
  ELSE IF IsComputed(Head(bag).value) \/ CallsSuper(Head(bag).value)
  THEN Throw(h, "DefinitionError", trace)
  ELSE applyRest(Then(trace, set(h, debug, inst, <<Head(bag).key>>, Head(bag).value, FALSE)),
                 debug, inst, Tail(bag))

\* variant: null is not taken for an empty bag
create_NullRejected(h, debug, inst, arg) ==
  IF arg.kind \in {"omitted", "undefined"} THEN applyBag(h, debug, inst, <<>>, <<>>)
  ELSE IF arg.kind = "mixin" THEN Throw(h, "DefinitionError", <<>>)
  ELSE IF arg.kind # "object" THEN Throw(h, "DefinitionError", <<>>)
  ELSE applyBag(h, debug, inst, arg.bag, <<>>)

\* variant: the instance is returned without the bag being applied
create_SkipsBag(h, debug, inst, arg) ==
  IF arg.kind \in {"omitted", "null", "undefined"} THEN applyBag(h, debug, inst, <<>>, <<>>)
  ELSE IF arg.kind = "mixin" THEN Throw(h, "DefinitionError", <<>>)
  ELSE IF arg.kind # "object" THEN Throw(h, "DefinitionError", <<>>)
  ELSE applyBag(h, debug, inst, <<>>, <<>>)

\* Class.create(arg) on the fresh instance inst of the class
create(h, debug, inst, arg) ==
  IF arg.kind \in {"omitted", "null", "undefined"} THEN applyBag(h, debug, inst, <<>>, <<>>)
  ELSE IF arg.kind = "mixin" THEN Throw(h, "DefinitionError", <<>>)
  ELSE IF arg.kind # "object" THEN Throw(h, "DefinitionError", <<>>)
  ELSE applyBag(h, debug, inst, arg.bag, <<>>)

\* ------------------------------------------------------------------ watching (ember-metal watch_key)
\* the (object,key) pairs the classes define an observer for
Observers == {<<"o1", "x">>, <<"o2", "y">>, <<"o3", "x">>}

\* watchKey: the count goes up; on 0 -> 1 in a debug build a plain data
\* property (own or inherited) gets the mandatory-setter trap, which is
\* enumerable only when the property was an own enumerable one
watchKey(h, debug, obj, k) ==
  LET h1 == [meta(h, obj) EXCEPT !.metas[obj].watching[k] = @ + 1]
      slot == h.objs[obj].own[k]
      plain == /\ descriptorFor(h, obj, k) = "undefined"
               /\ ~isDescriptor(PropRead(h, obj, k))
               /\ HasProperty(h, obj, k)
               /\ slot.kind \in {"data", "absent"}
  IN IF debug /\ peekWatching(h, obj, k) = 0 /\ plain
     THEN [h1 EXCEPT !.objs[obj].own[k] = TrapSlot(slot.kind = "data" /\ slot.enumerable),
                     !.metas[obj].values[k] = IF slot.kind = "data" THEN slot.value
                                              ELSE "unset"]
     ELSE h1

\* ------------------------------------------------------------------ the state machine
Cur == Heap(objs, metas, dvalues, reentrant)

NoCall == [op |-> "none", obj |-> "undefined", key |-> <<>>, value |-> "undefined",
           arg |-> NoArg, tolerant |-> FALSE, ret |-> "none", err |-> "none", trace |-> <<>>,
           pre |-> <<>>, post |-> <<>>,
           prev |-> [op |-> "none", obj |-> "undefined", key |-> <<>>,
                     value |-> "undefined", err |-> "none", notified |-> 0,
                     registered |-> [o \in Objs |-> [k \in SimpleKeys |-> 0]],
                     setups |-> [o \in Objs |-> [k \in SimpleKeys |-> 0]]]]

\* number of events e in a trace
RECURSIVE Count(_, _)
Count(t, e) ==
  IF t = <<>> THEN 0
  ELSE (IF Head(t).ev = e THEN 1 ELSE 0) + Count(Tail(t), e)

\* number of events e on (o,k) in a trace
CountFor(t, e, o, k) ==
  Len(SelectSeq(t, LAMBDA x : x.ev = e /\ x.obj = o /\ x.key = k))

\* what is kept of a call once the next one is made; registered and setups
\* count the registry writes and the setup calls of all calls so far
Summary(c) == [op |-> c.op, obj |-> c.obj, key |-> c.key, value |-> c.value,
               err |-> c.err, notified |-> Count(c.trace, "notify"),
               registered |-> [o \in Objs |-> [k \in SimpleKeys |->
                  c.prev.registered[o][k] + CountFor(c.trace, "writeDescriptors", o, k)]],
               setups |-> [o \in Objs |-> [k \in SimpleKeys |->
                  c.prev.setups[o][k] + CountFor(c.trace, "descriptor.setup", o, k)]]]

InitObjs(legacy) ==
  [o \in Objs |->
     [isDestroyed |-> FALSE,
      setUnknownProperty |-> o \in {"o1", "o2"},
      own |-> [k \in SimpleKeys |->
                 CASE o = "o1" /\ k = "x" -> DataSlot("o2", TRUE)
                   [] o = "o3" /\ k = "y" -> DataSlot(legacy, TRUE)
                   [] OTHER -> AbsentSlot],
      proto |-> [k \in SimpleKeys |->
                   IF o = "o2" /\ k = "y" THEN "undefined" ELSE "absent"]]]

InitMetas ==
  [o \in Objs |->
     IF o = "o2" THEN [NoMeta EXCEPT !.exists = TRUE, !.descriptors["x"] = "d2"]
     ELSE NoMeta]

InitDvalues ==
  [o \in Objs |-> [k \in SimpleKeys |-> IF o = "o2" /\ k = "x" THEN "o3" ELSE "undefined"]]

Init ==
  /\ DEBUG \in BOOLEAN
  /\ \E legacy \in Descs : objs = InitObjs(legacy)
  /\ metas = InitMetas
  /\ dvalues = InitDvalues
  /\ calls = 0
  /\ last = NoCall
  /\ reentrant = FALSE

Record(op, obj, key, value, tolerant, r) ==
  [op |-> op, obj |-> obj, key |-> key, value |-> value, arg |-> NoArg,
   tolerant |-> tolerant, ret |-> r.ret, err |-> r.err, trace |-> r.trace, pre |-> Cur, post |-> r.h,
   prev |-> Summary(last)]

Apply(op, obj, key, value, tolerant, r) ==
  /\ objs' = r.h.objs
  /\ metas' = r.h.metas
  /\ dvalues' = r.h.dvalues
  /\ calls' = calls + 1
  /\ last' = Record(op, obj, key, value, tolerant, r)
  /\ UNCHANGED <<DEBUG, reentrant>>

\* a caller runs set(obj, keyName, value); tolerant is left out
Set(obj, key, value) ==
  /\ calls < MaxCalls
  /\ Apply("set", obj, key, value, FALSE, set(Cur, DEBUG, obj, key, value, FALSE))

\* a caller runs trySet(root, path, value), that is set(root, path, value, true)
TrySet(root, path, value) ==
  /\ calls < MaxCalls
  /\ Apply("trySet", root, path, value, TRUE, trySet(Cur, DEBUG, root, path, value))

\* while the objects are set up, an observer starts watching (obj,key)
Watch(obj, k) ==
  /\ calls = 0
  /\ ~objs[obj].isDestroyed
  /\ <<obj, k>> \in Observers
  /\ metas[obj].watching[k] = 0
  /\ LET h == watchKey(Cur, DEBUG, obj, k)
     IN objs' = h.objs /\ metas' = h.metas
  /\ UNCHANGED <<DEBUG, dvalues, calls, last, reentrant>>

\* an object is destroyed before the calls are made
Destroy(obj) ==
  /\ calls = 0
  /\ ~objs[obj].isDestroyed
  /\ Cardinality({o \in Objs : objs[o].isDestroyed}) < MaxDestroyed
  /\ objs' = [objs EXCEPT ![obj].isDestroyed = TRUE]
  /\ UNCHANGED <<DEBUG, reentrant, metas, dvalues,
                 calls, last>>

\* the outcome r of Class.create(arg) on inst becomes the state
Constructed(inst, arg, r) ==
  /\ objs' = r.h.objs
  /\ metas' = r.h.metas
  /\ dvalues' = r.h.dvalues
  /\ last' = [Record("create", inst, <<>>, "undefined", FALSE, r) EXCEPT !.arg = arg]
  /\ calls' = calls + 1
  /\ UNCHANGED <<DEBUG, reentrant>>

\* a caller runs Class.create(arg), or Class.create(other) with another
\* instance as the argument; inst is the instance under construction
Create(inst, arg) ==
  /\ calls = 0
  /\ Constructed(inst, arg, create(Cur, DEBUG, inst, arg))

Next ==
  \/ \E obj \in Objs, key \in InputKeys, value \in InputValues : Set(obj, key, value)
  \/ \E root \in Objs, path \in InputKeys, value \in InputValues :
       TrySet(root, path, value)
  \/ \E obj \in Objs, k \in SimpleKeys : Watch(obj, k)
  \/ \E obj \in Objs : Destroy(obj)

Spec == Init /\ [][Next]_vars

\* construction: observers are set up, then create is called once
NextCreate ==
  \/ \E inst \in Objs, arg \in Args : Create(inst, arg)
  \/ \E inst \in Objs, other \in Objs :
       inst # other /\ Create(inst, [kind |-> "object", bag |-> OwnPairs(Cur, other)])
  \/ \E obj \in Objs, k \in SimpleKeys : Watch(obj, k)

SpecCreate == Init /\ [][NextCreate]_vars

\* the same program with an application whose observers, setup functions and
\* setters call set from inside the call that invoked them
InitReentrant ==
  /\ DEBUG \in BOOLEAN
  /\ \E legacy \in Descs : objs = InitObjs(legacy)
  /\ metas = InitMetas
  /\ dvalues = InitDvalues
  /\ calls = 0
  /\ last = NoCall
  /\ reentrant = TRUE

\* observers are set up, then set is called on live objects
NextReentrant ==
  \/ \E obj \in Objs, key \in InputKeys, value \in InputValues : Set(obj, key, value)
  \/ \E obj \in Objs, k \in SimpleKeys : Watch(obj, k)

SpecReentrant == InitReentrant /\ [][NextReentrant]_vars

\* ------------------------------------------------------------------ the last call
Called == last.op # "none"
O == last.obj
K == last.key[Len(last.key)]
V == last.value
Pre == last.pre
Post == last.post
Unchanged == Post = Pre
Notified == Count(last.trace, "notify")
Written == Count(last.trace, "rawWrite") + Count(last.trace, "writeValue")

\* the call has a simple key and its object is not destroyed
Live == Called /\ ~isPath(last.key) /\ ~Pre.objs[O].isDestroyed

\* what (O,K) was before the call
PreDesc == descriptorFor(Pre, O, K)
PreRaw == PropRead(Pre, O, K)
PreSlot == Pre.objs[O].own[K]
PreUnknown ==
  PreRaw = "undefined" /\ ~HasProperty(Pre, O, K) /\ Pre.objs[O].setUnknownProperty

\* the call is on the raw-write path: simple key, no descriptor registered, no
\* descriptor in the raw slot, not a case for setUnknownProperty
RawPath == Live /\ PreDesc = "undefined" /\ ~isDescriptor(PreRaw) /\ ~PreUnknown

\* the parent of a path key, resolved before the call
PreParent == getPath(Pre, O, SubSeq(last.key, 1, Len(last.key) - 1))

\* ------------------------------------------------------------------ claims
\* C1: on a live object, a simple key with a registered descriptor is set by
\* exactly one call of the descriptor's setter; set returns the value, writes
\* no raw slot and no Meta field, calls no hook and triggers no notification.
C1_DescriptorOwnsWrite ==
  (Live /\ PreDesc # "undefined") =>
     /\ last.err = "none"
     /\ last.ret = V
     /\ last.trace = <<Ev("descriptor.set", O, K, V)>>
     /\ Post.objs = Pre.objs
     /\ Post.metas = Pre.metas

C1_Witness ==
  /\ Live /\ PreDesc # "undefined"
  /\ PreSlot.kind = "getter"
  /\ V = "a" /\ last.ret = "a"
  /\ descriptorGet(Post, O, K) = "a"

\* C2 as stated: with no descriptor registered for a simple key, get returns
\* the value once set has returned.
C2_SetThenGet ==
  (Called /\ last.op = "set" /\ ~isPath(last.key) /\ PreDesc = "undefined"
      /\ last.err = "none")
    => get(Post, O, K) = V

\* C2 amended: the same on the raw-write path, that is when the object is live,
\* the raw slot holds no descriptor and the call is not one for
\* setUnknownProperty.
C2_RawWriteReadsBack ==
  RawPath => (last.err = "none" /\ get(Post, O, K) = V)

C2_Witness ==
  /\ RawPath /\ last.err = "none"
  /\ PreSlot.kind = "absent" /\ Pre.objs[O].proto[K] = "absent"
  /\ V = "a" /\ get(Post, O, K) = "a"

\* C3: on the raw-write path the slot is written once, and the notification
\* for (o,k) is triggered once when the value is not strictly identical to the
\* one the slot held, never when it is.
C3_NotifyIffChanged ==
  RawPath =>
     /\ last.err = "none"
     /\ Written = 1
     /\ last.trace[1] \in {Ev("rawWrite", O, K, V), Ev("writeValue", O, K, V)}
     /\ PropRead(Post, O, K) = V
     /\ IF StrictEquals(PreRaw, V)
        THEN last.trace = <<last.trace[1]>>
        ELSE last.trace = <<last.trace[1], Ev("notify", O, K, "undefined")>>

C3_Witness ==
  /\ RawPath /\ V = "a" /\ PreRaw = "a"
  /\ Written = 1 /\ Notified = 0
  /\ PropRead(Post, O, K) = "a"

\* the call repeats the one before it: same object, key and value
Repeated ==
  /\ Called /\ last.prev.op # "none"
  /\ last.prev.obj = O /\ last.prev.key = last.key /\ last.prev.value = V

\* C4 as stated: a call that repeats the one before it triggers no
\* notification, so the two trigger at most one.
C4_SecondCallSilent ==
  Repeated => (Notified = 0 /\ last.prev.notified + Notified <= 1)

\* C4 amended: the same for every value that is strictly identical to itself,
\* that is every value but NaN.
C4_SecondCallSilentUnlessNaN ==
  (Repeated /\ StrictEquals(V, V)) =>
     (Notified = 0 /\ last.prev.notified + Notified <= 1)

C4_Witness ==
  /\ Repeated /\ V = "a"
  /\ last.prev.notified = 1
  /\ Written = 1 /\ Notified = 0

\* C5: on a live object with the hook, a simple key with no descriptor whose
\* raw value is undefined and which is not in the object goes to
\* setUnknownProperty once, nothing is written or notified and the value is
\* returned; a key that is in the object is written raw and the hook is left
\* alone.
C5_UnknownPropertyRouting ==
  /\ (Live /\ PreDesc = "undefined" /\ PreUnknown) =>
        /\ last.err = "none"
        /\ last.ret = V
        /\ last.trace = <<Ev("setUnknownProperty", O, K, V)>>
        /\ Unchanged
  /\ (Live /\ PreDesc = "undefined" /\ ~isDescriptor(PreRaw)
        /\ Pre.objs[O].setUnknownProperty /\ HasProperty(Pre, O, K)) =>
        /\ last.err = "none"
        /\ last.ret = V
        /\ Count(last.trace, "setUnknownProperty") = 0
        /\ Written = 1
        /\ PropRead(Post, O, K) = V

C5_Witness ==
  /\ Live /\ PreDesc = "undefined" /\ PreUnknown
  /\ V = "a" /\ last.ret = "a"
  /\ Count(last.trace, "setUnknownProperty") = 1
  /\ PropRead(Post, O, K) = "undefined"

\* C6: on a destroyed object, for any key, set without tolerant raises
\* DestroyedObjectError and set with tolerant returns undefined; either way
\* nothing is changed and nothing is called.
C6_DestroyedGuard ==
  (Called /\ Pre.objs[O].isDestroyed) =>
     /\ Unchanged
     /\ last.trace = <<>>
     /\ IF last.tolerant
        THEN last.err = "none" /\ last.ret = "undefined"
        ELSE last.err = "DestroyedObjectError"

C6_Witness ==
  /\ Called /\ Pre.objs[O].isDestroyed
  /\ isPath(last.key) /\ PreParent \in Objs
  /\ last.tolerant /\ V = "a"
  /\ last.err = "none" /\ last.ret = "undefined"

\* C7: on a live object, a path key whose parent resolves to null or undefined
\* raises PathResolutionError without tolerant and returns undefined with it;
\* either way nothing is changed and nothing is called.
C7_MissingParent ==
  (Called /\ ~Pre.objs[O].isDestroyed /\ isPath(last.key)
      /\ PreParent \in {"null", "undefined"}) =>
     /\ Unchanged
     /\ last.trace = <<>>
     /\ IF last.tolerant
        THEN last.err = "none" /\ last.ret = "undefined"
        ELSE last.err = "PathResolutionError"

C7_Witness ==
  /\ Called /\ ~Pre.objs[O].isDestroyed /\ isPath(last.key)
  /\ PreParent = "null"
  /\ last.tolerant /\ V = "a"
  /\ last.err = "none" /\ last.ret = "undefined"

\* a link of the path is missing, or the object that would be written is
\* destroyed
MissingLink == isPath(last.key) /\ PreParent \in {"null", "undefined"}
TargetDestroyed ==
  \/ Pre.objs[O].isDestroyed
  \/ isPath(last.key) /\ PreParent \in Objs /\ Pre.objs[PreParent].isDestroyed

\* C8: trySet raises neither PathResolutionError nor DestroyedObjectError; with
\* a missing link or a destroyed target it returns undefined and changes
\* nothing.
C8_TrySetNeverRaises ==
  (Called /\ last.op = "trySet") =>
     /\ last.err \notin {"PathResolutionError", "DestroyedObjectError"}
     /\ (MissingLink \/ TargetDestroyed) =>
           (last.err = "none" /\ last.ret = "undefined" /\ Unchanged)

\* C9: a call that does not raise returns the value, except that it returns
\* undefined when tolerant is true and the object is destroyed or the parent
\* of the path is null or undefined.
TolerantFailure == last.tolerant /\ (Pre.objs[O].isDestroyed \/ MissingLink)

C9_ReturnsValue ==
  (Called /\ last.err = "none") =>
     last.ret = IF TolerantFailure THEN "undefined" ELSE V

C9_Witness ==
  /\ Called /\ last.err = "none"
  /\ isPath(last.key) /\ last.tolerant
  /\ Count(last.trace, "writeDescriptors") = 1
  /\ V = "a" /\ last.ret = "a"

\* C10: in a debug build no call installs or removes a mandatory-setter trap;
\* a raw write to a watched key that carries the trap goes to the Meta values,
\* leaves the trap in place and enumerable, and get returns the value; a raw
\* write to a key that is not watched, or whose object has no Meta, is an
\* ordinary assignment to a data slot.
C10_MandatorySetterKept ==
  (DEBUG /\ Called) =>
     /\ \A o \in Objs, k \in SimpleKeys :
           (Post.objs[o].own[k].kind = "trap") <=> (Pre.objs[o].own[k].kind = "trap")
     /\ (RawPath /\ PreSlot.kind = "trap" /\ peekWatching(Pre, O, K) > 0) =>
           /\ last.err = "none"
           /\ last.trace[1] = Ev("writeValue", O, K, V)
           /\ Post.objs[O].own[K] = TrapSlot(TRUE)
           /\ Post.metas[O].values[K] = V
           /\ get(Post, O, K) = V
     /\ (RawPath /\ (~Pre.metas[O].exists \/ peekWatching(Pre, O, K) = 0)) =>
           /\ last.err = "none"
           /\ last.trace[1] = Ev("rawWrite", O, K, V)
           /\ Post.objs[O].own[K].kind = "data"
           /\ Post.objs[O].own[K].value = V

C10_Witness ==
  /\ DEBUG /\ RawPath
  /\ PreSlot = TrapSlot(FALSE) /\ peekWatching(Pre, O, K) > 0
  /\ V = "a"
  /\ Post.objs[O].own[K] = TrapSlot(TRUE)
  /\ get(Post, O, K) = "a"

\* ------------------------------------------------------------------ claims on Class.create
\* the call was Class.create; Inst is the instance, Bag the pairs supplied
Created == Called /\ last.op = "create"
Inst == last.obj
Bag == last.arg.bag
ValidBag ==
  /\ last.arg.kind = "object"
  /\ \A i \in DOMAIN Bag : ~IsComputed(Bag[i].value) /\ ~CallsSuper(Bag[i].value)

\* what the call did for key k, in order, and the place of k in the bag
EventsFor(k) == SelectSeq(last.trace, LAMBDA e : e.key = k)
KeyIndex(k) == CHOOSE i \in DOMAIN Bag : Bag[i].key = k

\* C11: create with a valid bag returns the instance with every pair applied
\* through the Set Pipeline, in the order of the bag: a key with a descriptor
\* goes to the descriptor's setter once and get then returns what the
\* descriptor yields while the raw slot keeps no bag value; a key that is not
\* in the instance, when the class has the hook, goes to setUnknownProperty
\* once and nothing is written; any other key is written raw once and get
\* then returns the value supplied.
C11_CreateAppliesBag ==
  (Created /\ ValidBag) =>
     /\ last.err = "none"
     /\ last.ret = Inst
     /\ \A p \in DOMAIN last.trace :
           /\ last.trace[p].obj = Inst
           /\ \E i \in DOMAIN Bag : Bag[i].key = last.trace[p].key
           /\ \A q \in DOMAIN last.trace :
                 p < q => KeyIndex(last.trace[p].key) <= KeyIndex(last.trace[q].key)
     /\ \A i \in DOMAIN Bag :
           LET k == Bag[i].key
               v == Bag[i].value
               evs == EventsFor(k)
           IN IF descriptorFor(Pre, Inst, k) # "undefined" \/ isDescriptor(PropRead(Pre, Inst, k))
              THEN /\ Count(evs, "descriptor.set") = 1
                   /\ \E p \in DOMAIN evs : evs[p] = Ev("descriptor.set", Inst, k, v)
                   /\ Count(evs, "rawWrite") + Count(evs, "writeValue") = 0
                   /\ Count(evs, "setUnknownProperty") = 0
                   /\ descriptorFor(Post, Inst, k) # "undefined"
                   /\ get(Post, Inst, k) = descriptorGet(Post, Inst, k)
                   /\ Post.objs[Inst].own[k].kind # "data"
              ELSE IF ~HasProperty(Pre, Inst, k) /\ Pre.objs[Inst].setUnknownProperty
              THEN /\ evs = <<Ev("setUnknownProperty", Inst, k, v)>>
                   /\ Post.objs[Inst].own[k] = Pre.objs[Inst].own[k]
              ELSE /\ Count(evs, "rawWrite") + Count(evs, "writeValue") = 1
                   /\ evs[1] \in {Ev("rawWrite", Inst, k, v), Ev("writeValue", Inst, k, v)}
                   /\ Count(evs, "descriptor.set") + Count(evs, "setUnknownProperty") = 0
                   /\ get(Post, Inst, k) = v

C11_Witness ==
  /\ Created /\ ValidBag /\ last.err = "none"
  /\ Inst = "o2" /\ Bag = <<Pair("y", "a"), Pair("x", "a")>>
  /\ descriptorFor(Pre, "o2", "x") = "d2"
  /\ EventsFor("x") = <<Ev("descriptor.set", "o2", "x", "a")>>
  /\ get(Post, "o2", "x") = "a" /\ Post.objs["o2"].own["x"].kind # "data"
  /\ get(Post, "o2", "y") = "a"

\* the argument is one create rejects; FirstBad is the place of the first
\* pair whose value is a computed property or a function that calls _super
BadPair(i) == IsComputed(Bag[i].value) \/ CallsSuper(Bag[i].value)
Rejected ==
  \/ last.arg.kind \in {"string", "number", "boolean", "mixin"}
  \/ last.arg.kind = "object" /\ \E i \in DOMAIN Bag : BadPair(i)
FirstBad == CHOOSE i \in DOMAIN Bag : BadPair(i) /\ \A j \in DOMAIN Bag : BadPair(j) => i <= j

EmptyArgs == {[kind |-> t, bag |-> <<>>] : t \in {"omitted", "null", "undefined"}}

\* C13: create with no argument, with null and with undefined succeeds,
\* returns the instance, makes no Set Pipeline call and leaves the instance
\* as the class defines it; the instances the three calls produce from the
\* same class are equal in every slot, Meta field and descriptor value.
C13_CreateEmpty ==
  (Created /\ last.arg \in EmptyArgs) =>
     /\ last.err = "none"
     /\ last.ret = Inst
     /\ last.trace = <<>>
     /\ Unchanged
     /\ \A a \in EmptyArgs :
           LET r == create(Pre, DEBUG, Inst, a)
           IN /\ r.err = "none" /\ r.ret = Inst /\ r.trace = <<>>
              /\ r.h.objs[Inst] = Post.objs[Inst]
              /\ r.h.metas[Inst] = Post.metas[Inst]
              /\ r.h.dvalues[Inst] = Post.dvalues[Inst]

C13_Witness ==
  /\ Created /\ last.arg.kind = "undefined"
  /\ Inst = "o1" /\ last.err = "none" /\ last.ret = "o1"
  /\ last.trace = <<>>
  /\ Post.metas["o1"].watching["x"] = 1
  /\ PropRead(Post, "o1", "x") = "o2"
  /\ create(Pre, DEBUG, "o1", [kind |-> "null", bag |-> <<>>]).h = Post

\* ------------------------------------------------------------------ claims on paths and dispatch
\* the call has a path key, its root is not destroyed and the parent of the
\* last segment is neither null nor undefined
ParentFound ==
  /\ Called /\ last.op \in {"set", "trySet"}
  /\ ~Pre.objs[O].isDestroyed /\ isPath(last.key)
  /\ PreParent \notin {"null", "undefined"}

C16_PathIsSetOnParent ==
  (ParentFound /\ PreParent \in Objs) =>
     LET r == set(Pre, DEBUG, PreParent, <<K>>, V, FALSE)
     IN /\ last.err = r.err
        /\ last.ret = r.ret
        /\ last.trace = r.trace
        /\ Post = r.h
        /\ \A p \in DOMAIN last.trace :
              last.trace[p].obj = PreParent /\ last.trace[p].key = K
        /\ \A o \in Objs \ {PreParent} :
              /\ Post.objs[o] = Pre.objs[o]
              /\ Post.metas[o] = Pre.metas[o]
              /\ Post.dvalues[o] = Pre.dvalues[o]

C16_Witness ==
  /\ ParentFound /\ last.op = "set"
  /\ O = "o1" /\ last.key = <<"x", "x", "y">> /\ PreParent = "o3"
  /\ V = "a" /\ last.err = "none" /\ last.ret = "a"
  /\ Count(last.trace, "writeDescriptors") = 1
  /\ descriptorFor(Post, "o3", "y") # "undefined"
  /\ get(Post, "o3", "y") = "a"
  /\ Post.objs["o1"] = Pre.objs["o1"] /\ Post.objs["o2"] = Pre.objs["o2"]

\* the branches a call took, read off its trace
TookLegacy == Count(last.trace, "writeDescriptors") > 0
TookDescriptor == Count(last.trace, "descriptor.set") > 0 /\ ~TookLegacy
TookHook == Count(last.trace, "setUnknownProperty") > 0
TookRaw == Written > 0
BranchesTaken ==
  (IF TookDescriptor THEN 1 ELSE 0) + (IF TookLegacy THEN 1 ELSE 0)
    + (IF TookHook THEN 1 ELSE 0) + (IF TookRaw THEN 1 ELSE 0)

\* C18: a simple-key call on a live object that returns takes exactly one
\* branch, the first that applies of: the registered descriptor's setter, the
\* legacy upgrade of a descriptor held in the raw slot, setUnknownProperty
\* for a key that is not in the object, the raw write.  A registered
\* descriptor is served before setUnknownProperty even for a key that is not
\* in the object.  On a destroyed object no branch is taken and no path is
\* resolved, whatever the key.
C18_DispatchOrder ==
  /\ (Live /\ last.op \in {"set", "trySet"} /\ last.err = "none") =>
        /\ BranchesTaken = 1
        /\ IF PreDesc # "undefined" THEN TookDescriptor
           ELSE IF isDescriptor(PreRaw) THEN TookLegacy
           ELSE IF PreUnknown THEN TookHook
           ELSE TookRaw
  /\ (Called /\ last.op \in {"set", "trySet"} /\ Pre.objs[O].isDestroyed) =>
        /\ BranchesTaken = 0
        /\ last.trace = <<>>
        /\ last.err \in {"none", "DestroyedObjectError"}

C18_Witness ==
  /\ Live /\ last.op = "set" /\ last.err = "none"
  /\ O = "o2" /\ K = "x" /\ V = "a"
  /\ PreDesc = "d2"
  /\ ~HasProperty(Pre, "o2", "x") /\ Pre.objs["o2"].setUnknownProperty
  /\ PreRaw = "undefined"
  /\ TookDescriptor /\ BranchesTaken = 1

\* ------------------------------------------------------------------ claims on re-entrant calls
\* the raw slot of (O,K) holds a descriptor that is not registered
PreLegacy == Live /\ PreDesc = "undefined" /\ isDescriptor(PreRaw)

\* C15: with observers, setup functions and setters that call set from
\* inside the call, over all the calls made: each (o,k) is written to the
\* registry at most once and its setup is invoked at most once.  The call
\* that finds an unregistered descriptor cv in the raw slot registers cv,
\* then invokes cv.setup if cv has one, then cv.set with the value; the calls
\* that setup and the setter make meanwhile, and every call once a descriptor
\* is registered, invoke the setter of the descriptor and nothing else, and
\* leave the registry as it is.
C15_LegacyUpgradeOnce ==
  (Called /\ last.op \in {"set", "trySet"}) =>
     /\ \A o \in Objs, k \in SimpleKeys :
           /\ last.prev.registered[o][k] + CountFor(last.trace, "writeDescriptors", o, k) <= 1
           /\ last.prev.setups[o][k] + CountFor(last.trace, "descriptor.setup", o, k) <= 1
     /\ PreLegacy =>
           /\ last.err = "none" /\ last.ret = V
           /\ Len(last.trace) >= 4
           /\ SubSeq(last.trace, 1, 3) =
                 <<Ev("deprecate", O, K, PreRaw), Ev("defineProperty", O, K, PreRaw),
                   Ev("writeDescriptors", O, K, PreRaw)>>
           /\ Count(last.trace, "descriptor.setup") = (IF PreRaw \in DescsWithSetup THEN 1 ELSE 0)
           /\ PreRaw \in DescsWithSetup =>
                 last.trace[4] = Ev("descriptor.setup", O, K, "undefined")
           /\ \A p \in DOMAIN last.trace :
                 (p > 3 /\ last.trace[p].ev # "descriptor.setup") =>
                    (last.trace[p].ev = "descriptor.set"
                       /\ last.trace[p].obj = O /\ last.trace[p].key = K)
           /\ \E p \in DOMAIN last.trace : last.trace[p] = Ev("descriptor.set", O, K, V)
           /\ descriptorFor(Post, O, K) = PreRaw
           /\ descriptorGet(Post, O, K) = V
     /\ (Live /\ PreDesc # "undefined") =>
           /\ last.err = "none" /\ last.ret = V
           /\ last.trace # <<>>
           /\ \A p \in DOMAIN last.trace :
                 /\ last.trace[p].ev = "descriptor.set"
                 /\ last.trace[p].obj = O /\ last.trace[p].key = K
           /\ descriptorFor(Post, O, K) = PreDesc
           /\ descriptorGet(Post, O, K) = V

C15_Witness ==
  /\ reentrant /\ Live /\ last.op = "set"
  /\ O = "o3" /\ K = "y" /\ V = "a"
  /\ last.prev.op = "set" /\ last.prev.obj = "o3" /\ last.prev.key = <<"y">>
  /\ last.prev.registered["o3"]["y"] = 1
  /\ last.prev.setups["o3"]["y"] = 1
  /\ PreDesc = "d1"
  /\ last.trace = <<Ev("descriptor.set", "o3", "y", "a"), Ev("descriptor.set", "o3", "y", "a")>>
  /\ descriptorGet(Post, "o3", "y") = "a"

\* the call is a raw write of a new value to a key that has an observer
IsWrite(e) == e.ev \in {"rawWrite", "writeValue"} /\ e.obj = O /\ e.key = K /\ e.value = V
ObservedWrite ==
  /\ RawPath /\ last.op \in {"set", "trySet"}
  /\ Pre.metas[O].exists /\ peekWatching(Pre, O, K) > 0
  /\ ~StrictEquals(PreRaw, V)

\* the notification follows the store, and the observer reads the new value
StoredThenNotified ==
  /\ Len(last.trace) >= 3
  /\ IsWrite(last.trace[1])
  /\ last.trace[2] = Ev("notify", O, K, "undefined")
  /\ last.trace[3] = Ev("observer", O, K, V)
  /\ \A p \in DOMAIN last.trace :
        /\ last.trace[p].ev = "notify" => (p > 1 /\ IsWrite(last.trace[p - 1]))
        /\ last.trace[p].ev = "observer" => last.trace[p].value = V

\* the observer's own call of set with the same value stores it and triggers
\* nothing, and the outer call returns the value
ChainEnds ==
  /\ last.err = "none" /\ last.ret = V
  /\ Len(last.trace) = 4
  /\ IsWrite(last.trace[4])
  /\ Notified = 1
  /\ get(Post, O, K) = V

\* C17 as stated: on the raw-write path with an observer, the notification
\* is triggered after the value is stored and before set returns, the
\* observer reads the new value, and its call of set with the same value
\* triggers no further notification, so that the chain of calls ends.
C17_WriteBeforeNotify ==
  ObservedWrite => (StoredThenNotified /\ ChainEnds)

\* C17 amended: the order holds for every value, and the chain ends for every
\* value that is strictly identical to itself, that is every value but NaN.
C17_WriteBeforeNotifyUnlessNaN ==
  ObservedWrite =>
     /\ StoredThenNotified
     /\ StrictEquals(V, V) => ChainEnds

C17_Witness ==
  /\ reentrant /\ ObservedWrite
  /\ O = "o1" /\ K = "x" /\ V = "a" /\ PreRaw = "o2"
  /\ last.trace[3] = Ev("observer", "o1", "x", "a")
  /\ Len(last.trace) = 4 /\ Notified = 1
  /\ last.err = "none" /\ get(Post, "o1", "x") = "a"
====
